---- MODULE Spec2Model ----
(***************************************************************************)
(* A model of capsul's pipeline XML codec (capsul/pipeline/xml.py) and of  *)
(* the activation inspector (capsul/wip/qt_gui/activation_inspector.py).   *)
(*                                                                         *)
(* Strings whose inner structure the code inspects are sequences of atoms: *)
(* "n.o" is <<"n", ".", "o">>, the empty string is <<>>.  Python's None is *)
(* the value None below.                                                   *)
(***************************************************************************)
EXTENDS Integers, Sequences, FiniteSets, TLC

VARIABLES
    pipeline,     \* the graph built through the builder API
    builderCalls, \* number of builder calls made on pipeline
    doc,          \* the XML document (root element) on disk
    origin,       \* how doc came to be: "none", "authored", "saved", "save_failed"
    outcome,      \* what create_xml_pipeline(doc) did
    switchKind,   \* the inspected pipeline: whether node S is a Switch or an OptionalSwitch
    graphLinks,   \* ... its links
    selection,    \* ... the selected alternative of S
    activated,    \* ... the activated flag of every node and plug
    liveLinks,    \* ... the links whose status is live
    lastOp,       \* the last operation that ran on the inspected pipeline or in the inspector
    record,       \* the record file: the pipeline id and the recorded events
    activations,  \* ActivationInspector.activations: one snapshot per step
    events,       \* the items of the ui.events list
    currentRow,   \* the current row of ui.events
    pattern       \* the text of ui.pattern

codecVars == <<pipeline, builderCalls, doc, origin, outcome>>

graphVars == <<switchKind, graphLinks, selection>>

inspectorVars == <<record, activations, events, currentRow, pattern>>

vars == <<codecVars, graphVars, activated, liveLinks, lastOp, inspectorVars>>

\* ----------------------------------------------------------------- bounds
MaxEntries == 3
MaxBuilderCalls == 3
MaxLinks == 3
MaxRecord == 3

\* ---------------------------------------------------------------- strings
None == <<"<None>">>
IntOne == <<"<int 1>">>
Dot == "."
Arrow == "->"
Space == " "

HasDot(s) == \E i \in DOMAIN s : s[i] = Dot

LastDot(s) == CHOOSE i \in DOMAIN s : s[i] = Dot /\ \A j \in DOMAIN s : s[j] = Dot => j <= i

\* s.rsplit('.', 1), for a string that holds a dot
RSplitDot(s) == <<SubSeq(s, 1, LastDot(s) - 1), SubSeq(s, LastDot(s) + 1, Len(s))>>

\* '%s->%s' % (source, dest)
LinkString(source, dest) == source \o <<Arrow>> \o dest

\* '%s.%s' % (node_name, plug_name)
Dotted(node_name, plug_name) == node_name \o <<Dot>> \o plug_name

RECURSIVE LStrip(_)
LStrip(s) == IF s # <<>> /\ Head(s) = Space THEN LStrip(Tail(s)) ELSE s

RECURSIVE RStrip(_)
RStrip(s) == IF s # <<>> /\ s[Len(s)] = Space THEN RStrip(SubSeq(s, 1, Len(s) - 1)) ELSE s

\* text.strip()
Strip(s) == RStrip(LStrip(s))

\* Python truthiness of an attribute value: None and '' are false
Truthy(v) == v # None /\ v # <<>>

\* float(text) for the texts the documents use, in tenths
IsFloatText(s) == s \in {<<"1.0">>, <<"2.5">>, <<"3">>, <<"3.0">>}

Float(s) ==
    CASE s = <<"1.0">> -> 10
      [] s = <<"2.5">> -> 25
      [] s = <<"3">> -> 30
      [] s = <<"3.0">> -> 30

\* unicode(value) of a float, in tenths
Unicode(v) ==
    CASE v = 10 -> <<"1.0">>
      [] v = 25 -> <<"2.5">>
      [] v = 30 -> <<"3.0">>

\* --------------------------------------------------------------- elements
Element(tag) ==
    [tag |-> tag, name |-> None, module |-> None, source |-> None, dest |-> None,
     value |-> None, usedefault |-> None, use_default |-> None, copyfile |-> None,
     x |-> None, y |-> None, level |-> None, weak |-> None, text |-> None,
     children |-> <<>>]

Root(version) ==
    [capsul_xml |-> version, name |-> None, doc |-> None, children |-> <<>>]

\* ------------------------------------------------------------ dictionaries
\* An (ordered) dict as a sequence of <<key, value>>: d[key] = value
RECURSIVE DictSet(_, _, _)
DictSet(d, key, value) ==
    IF d = <<>> THEN << <<key, value>> >>
    ELSE IF Head(d)[1] = key THEN << <<key, value>> >> \o Tail(d)
    ELSE <<Head(d)>> \o DictSet(Tail(d), key, value)

DictKeys(d) == {d[i][1] : i \in DOMAIN d}

DictGet(d, key) == d[CHOOSE i \in DOMAIN d : d[i][1] = key][2]

\* -------------------------------------------------- create_xml_pipeline
\* The state of one run of create_xml_pipeline: the builder calls made so
\* far, the exported_parameters set, and how the run ended.  A call records
\* the position of the entry of the document it was made for (0: none).
Call(op, args, kwargs) == [op |-> op, args |-> args, kwargs |-> kwargs, entry |-> 0]

NoKwargs ==
    [values |-> <<>>, make_optional |-> <<>>, inputs_to_copy |-> <<>>,
     inputs_to_clean |-> <<>>, iterative_plugs |-> <<>>]

Running == [status |-> "running", error |-> "", calls |-> <<>>, exported |-> {}, entry |-> 0]

NotRun == [status |-> "none", error |-> "", calls |-> <<>>, exported |-> {}, entry |-> 0]

Raise(st, error) == [st EXCEPT !.status = "error", !.error = error]

Made(st, call) == [st EXCEPT !.calls = Append(@, [call EXCEPT !.entry = st.entry])]

\* capsul.process.xml.string_to_value: the value a 'set' entry carries
StringToValue(value) == IF value = None THEN None ELSE <<"value of">> \o value

\* Mutant of VersionRejected: the version check is dropped
VersionNeverRejected(version) == FALSE

\* if version and version != '2.0': raise ValueError
VersionRejected(version) == Truthy(version) /\ version # <<"2.0">>

\* <doc>: builder.set_documentation(child.text.strip())
DocEntry(st, child) ==
    IF child.text = None THEN Raise(st, "AttributeError")
    ELSE Made(st, Call("set_documentation", <<Strip(child.text)>>, NoKwargs))

\* The loop over the children of a <process> entry
RECURSIVE ProcessChildren(_, _, _)
ProcessChildren(children, i, acc) ==
    IF i > Len(children) THEN acc
    ELSE LET c == children[i] IN
        CASE c.tag = "set" ->
                LET v == StringToValue(c.value)
                    kw1 == IF v # None
                           THEN [acc.kwargs EXCEPT !.values = DictSet(@, c.name, v)]
                           ELSE acc.kwargs
                    kw2 == [kw1 EXCEPT !.make_optional = Append(@, c.name)]
                IN  ProcessChildren(children, i + 1, [acc EXCEPT !.kwargs = kw2])
          [] c.tag = "iterate" ->
                ProcessChildren(children, i + 1,
                                [acc EXCEPT !.iterate = Append(@, c.name)])
          [] c.tag = "nipype" ->
                LET ud == IF c.usedefault = <<"true">>
                          THEN Append(acc.nipype_usedefault, c.name)
                          ELSE acc.nipype_usedefault
                    kw == CASE c.copyfile = <<"true">> ->
                                [acc.kwargs EXCEPT !.inputs_to_copy = Append(@, c.name)]
                            [] c.copyfile = <<"discard">> ->
                                [acc.kwargs EXCEPT !.inputs_to_copy = Append(@, c.name),
                                                   !.inputs_to_clean = Append(@, c.name)]
                            [] OTHER -> acc.kwargs
                IN  ProcessChildren(children, i + 1,
                                    [acc EXCEPT !.nipype_usedefault = ud, !.kwargs = kw])
          [] OTHER -> [acc EXCEPT !.ok = FALSE]

RECURSIVE UseDefaultCalls(_, _, _)
UseDefaultCalls(st, process_name, names) ==
    IF names = <<>> THEN st
    ELSE UseDefaultCalls(
            Made(st, Call("call_process_method",
                          <<process_name, <<"set_usedefault">>, Head(names), <<"True">> >>,
                          NoKwargs)),
            process_name, Tail(names))

\* Mutant of ProcessEntry: set_usedefault is called before the process is added
ProcessEntryUseDefaultFirst(st, child) ==
    LET acc == ProcessChildren(child.children, 1,
                   [ok |-> TRUE, kwargs |-> NoKwargs, nipype_usedefault |-> <<>>,
                    iterate |-> <<>>])
        args == <<child.name, child.module>>
        first == UseDefaultCalls(st, child.name, acc.nipype_usedefault)
    IN  IF ~acc.ok THEN Raise(st, "ValueError")
        ELSE IF acc.iterate # <<>>
        THEN Made(first, Call("add_iterative_process", args,
                              [acc.kwargs EXCEPT !.iterative_plugs = acc.iterate]))
        ELSE Made(first, Call("add_process", args, acc.kwargs))

\* <process>
ProcessEntry(st, child) ==
    LET acc == ProcessChildren(child.children, 1,
                   [ok |-> TRUE, kwargs |-> NoKwargs, nipype_usedefault |-> <<>>,
                    iterate |-> <<>>])
        args == <<child.name, child.module>>
        added == IF acc.iterate # <<>>
                 THEN Made(st, Call("add_iterative_process", args,
                                    [acc.kwargs EXCEPT !.iterative_plugs = acc.iterate]))
                 ELSE Made(st, Call("add_process", args, acc.kwargs))
    IN  IF ~acc.ok THEN Raise(st, "ValueError")
        ELSE UseDefaultCalls(added, child.name, acc.nipype_usedefault)

\* Mutant of LinkEntry: an exported dest name is not remembered
LinkEntryForgetsDest(st, child) ==
    LET source == child.source
        dest == child.dest
        link == Made(st, Call("add_link", <<LinkString(source, dest)>>, NoKwargs))
    IN  IF source = None \/ dest = None THEN Raise(st, "TypeError")
        ELSE IF HasDot(source) THEN
            IF HasDot(dest) THEN link
            ELSE IF dest \in st.exported THEN link
            ELSE Made(st, Call("export_parameter",
                               <<RSplitDot(source)[1], RSplitDot(source)[2], dest>>,
                               NoKwargs))
        ELSE IF source \in st.exported THEN link
        ELSE IF ~HasDot(dest) THEN Raise(st, "ValueError")
        ELSE [Made(st, Call("export_parameter",
                            <<RSplitDot(dest)[1], RSplitDot(dest)[2], source>>,
                            NoKwargs))
                EXCEPT !.exported = @ \cup {source}]

\* <link>
LinkEntry(st, child) ==
    LET source == child.source
        dest == child.dest
        link == Made(st, Call("add_link", <<LinkString(source, dest)>>, NoKwargs))
    IN  IF source = None \/ dest = None THEN Raise(st, "TypeError")
        ELSE IF HasDot(source) THEN
            IF HasDot(dest) THEN link
            ELSE IF dest \in st.exported THEN link
            ELSE [Made(st, Call("export_parameter",
                                <<RSplitDot(source)[1], RSplitDot(source)[2], dest>>,
                                NoKwargs))
                    EXCEPT !.exported = @ \cup {dest}]
        ELSE IF source \in st.exported THEN link
        ELSE IF ~HasDot(dest) THEN Raise(st, "ValueError")
        ELSE [Made(st, Call("export_parameter",
                            <<RSplitDot(dest)[1], RSplitDot(dest)[2], source>>,
                            NoKwargs))
                EXCEPT !.exported = @ \cup {source}]

\* The loop over the children of a <processes_group>
RECURSIVE GroupChildren(_, _, _)
GroupChildren(children, i, acc) ==
    IF i > Len(children) THEN acc
    ELSE IF children[i].tag = "process"
    THEN GroupChildren(children, i + 1,
                       [acc EXCEPT !.group = Append(@, children[i].name)])
    ELSE [acc EXCEPT !.ok = FALSE]

\* The loop over the children of a <processes_selection>
RECURSIVE SelectionChildren(_, _, _)
SelectionChildren(children, i, acc) ==
    IF i > Len(children) THEN acc
    ELSE IF children[i].tag = "processes_group"
    THEN LET g == GroupChildren(children[i].children, 1, [ok |-> TRUE, group |-> <<>>])
         IN  IF ~g.ok THEN [acc EXCEPT !.ok = FALSE]
             ELSE SelectionChildren(children, i + 1,
                     [acc EXCEPT !.groups = DictSet(@, children[i].name, g.group)])
    ELSE [acc EXCEPT !.ok = FALSE]

\* <processes_selection>
SelectionEntry(st, child) ==
    LET acc == SelectionChildren(child.children, 1, [ok |-> TRUE, groups |-> <<>>])
    IN  IF ~acc.ok THEN Raise(st, "ValueError")
        ELSE Made(st, Call("add_processes_selection", <<child.name, acc.groups>>, NoKwargs))

FloatError(text) == IF text = None THEN "TypeError" ELSE "ValueError"

\* The loop over the children of a <gui>
RECURSIVE GuiChildren(_, _, _)
GuiChildren(st, children, i) ==
    IF i > Len(children) THEN st
    ELSE LET c == children[i] IN
        CASE c.tag = "position" ->
                IF ~IsFloatText(c.x) THEN Raise(st, FloatError(c.x))
                ELSE IF ~IsFloatText(c.y) THEN Raise(st, FloatError(c.y))
                ELSE GuiChildren(
                        Made(st, Call("set_node_position",
                                      <<c.name, Float(c.x), Float(c.y)>>, NoKwargs)),
                        children, i + 1)
          [] c.tag = "zoom" ->
                IF ~IsFloatText(c.level) THEN Raise(st, FloatError(c.level))
                ELSE GuiChildren(
                        Made(st, Call("set_scene_scale_factor", <<Float(c.level)>>,
                                      NoKwargs)),
                        children, i + 1)
          [] OTHER -> Raise(st, "ValueError")

\* <gui>
GuiEntry(st, child) == GuiChildren(st, child.children, 1)

\* Mutant of DecodeEntry: an entry with an unknown tag is skipped
DecodeEntrySkipsUnknown(st, child) ==
    CASE child.tag = "doc" -> DocEntry(st, child)
      [] child.tag = "process" -> ProcessEntry(st, child)
      [] child.tag = "link" -> LinkEntry(st, child)
      [] child.tag = "processes_selection" -> SelectionEntry(st, child)
      [] child.tag = "gui" -> GuiEntry(st, child)
      [] OTHER -> st

\* One iteration of "for child in xml_pipeline"
DecodeEntry(st, child) ==
    CASE child.tag = "doc" -> DocEntry(st, child)
      [] child.tag = "process" -> ProcessEntry(st, child)
      [] child.tag = "link" -> LinkEntry(st, child)
      [] child.tag = "processes_selection" -> SelectionEntry(st, child)
      [] child.tag = "gui" -> GuiEntry(st, child)
      [] OTHER -> Raise(st, "ValueError")

RECURSIVE DecodeChildren(_, _, _)
DecodeChildren(st, children, i) ==
    IF i > Len(children) THEN [st EXCEPT !.status = "ok"]
    ELSE LET next == DecodeEntry([st EXCEPT !.entry = i], children[i])
         IN  IF next.status = "error" THEN next
             ELSE DecodeChildren(next, children, i + 1)

\* create_xml_pipeline(module, name, xml_file), on the parsed document
CreateXmlPipelineOf(root) ==
    IF VersionRejected(root.capsul_xml) THEN Raise(Running, "ValueError")
    ELSE DecodeChildren(Running, root.children, 1)

\* ------------------------------------------------------ the pipeline graph
\* pipeline.nodes without the pipeline's own node "", in insertion order; the
\* plugs of the node "" are root_plugs (exported parameters, in export order);
\* links holds every plug's links_to entries, in insertion order.
EmptyPipeline ==
    [nodes |-> <<>>, root_plugs |-> <<>>, links |-> <<>>, exports |-> <<>>,
     selections |-> <<>>, node_position |-> <<>>, has_scale |-> FALSE,
     scene_scale_factor |-> 0, documentation |-> <<>>]

Node(name, kind, module) ==
    [name |-> name, kind |-> kind, module |-> module, iterative_parameters |-> <<>>,
     nipype |-> FALSE, inputs_to_copy |-> <<>>, inputs_to_clean |-> <<>>,
     usedefault |-> <<>>]

LinkRec(sn, sp, dn, dp, weak) == [sn |-> sn, sp |-> sp, dn |-> dn, dp |-> dp, weak |-> weak]

RootName == <<>>

NodeNames(g) == {g.nodes[i].name : i \in DOMAIN g.nodes}

\* The plugs every inner node carries: inputs i and j, output o
InputPlugs == {<<"i">>, <<"j">>}

OutputPlugs == {<<"o">>}

NodePlugOrder == << <<"i">>, <<"j">>, <<"o">> >>

HasPlug(g, node, plug) ==
    IF node = RootName THEN plug \in DictKeys(g.root_plugs)
    ELSE node \in NodeNames(g) /\ plug \in InputPlugs \cup OutputPlugs

\* plug.output
IsOutput(g, node, plug) ==
    IF node = RootName THEN DictGet(g.root_plugs, plug) ELSE plug \in OutputPlugs

\* ------------------------------------------------------------ the builder
Built(g) == [ok |-> TRUE, error |-> "", g |-> g]

Refused(g, error) == [ok |-> FALSE, error |-> error, g |-> g]

BuilderAddNode(g, node) ==
    IF node.name \in NodeNames(g) \/ node.name = RootName THEN Refused(g, "DuplicateNode")
    ELSE Built([g EXCEPT !.nodes = Append(@, node)])

\* parse_parameter: "node.plug", or a bare name for a plug of the pipeline
ParseParameter(s) ==
    IF HasDot(s)
    THEN LET d == CHOOSE i \in DOMAIN s : s[i] = Dot /\ \A j \in 1..(i - 1) : s[j] # Dot
         IN  <<SubSeq(s, 1, d - 1), SubSeq(s, d + 1, Len(s))>>
    ELSE <<RootName, s>>

ArrowAt(s) == CHOOSE i \in DOMAIN s : s[i] = Arrow

\* parse_link: "source->dest"
ParseLink(s) ==
    <<ParseParameter(SubSeq(s, 1, ArrowAt(s) - 1)),
      ParseParameter(SubSeq(s, ArrowAt(s) + 1, Len(s)))>>

\* A link leaves an inner output or a pipeline input, and enters an inner
\* input or a pipeline output
SourceOk(g, node, plug) ==
    HasPlug(g, node, plug) /\ (IsOutput(g, node, plug) <=> node # RootName)

DestOk(g, node, plug) ==
    HasPlug(g, node, plug) /\ (IsOutput(g, node, plug) <=> node = RootName)

SameEnds(l, k) == l.sn = k.sn /\ l.sp = k.sp /\ l.dn = k.dn /\ l.dp = k.dp

BuilderAddLink(g, link, weak) ==
    LET ends == ParseLink(link)
        l == LinkRec(ends[1][1], ends[1][2], ends[2][1], ends[2][2], weak)
    IN  IF ~SourceOk(g, l.sn, l.sp) \/ ~DestOk(g, l.dn, l.dp)
           \/ (l.sn = l.dn /\ l.sp = l.dp)
           \/ \E i \in DOMAIN g.links : SameEnds(g.links[i], l) /\ g.links[i].weak = weak
        THEN Refused(g, "InvalidLinkError")
        ELSE Built([g EXCEPT !.links = Append(@, l)])

BuilderExportParameter(g, node, plug, name) ==
    IF node = RootName \/ ~HasPlug(g, node, plug) THEN Refused(g, "DanglingReferenceError")
    ELSE IF name \in DictKeys(g.exports)
    THEN IF DictGet(g.exports, name) = <<node, plug>> THEN Built(g)
         ELSE Refused(g, "ConflictingExportError")
    ELSE LET out == IsOutput(g, node, plug)
             l == IF out THEN LinkRec(node, plug, RootName, name, FALSE)
                  ELSE LinkRec(RootName, name, node, plug, FALSE)
         IN  Built([g EXCEPT !.root_plugs = DictSet(@, name, out),
                             !.exports = DictSet(@, name, <<node, plug>>),
                             !.links = Append(@, l)])

GroupMembers(groups) == UNION {{groups[i][2][j] : j \in DOMAIN groups[i][2]} : i \in DOMAIN groups}

BuilderAddProcessesSelection(g, param, groups) ==
    IF ~(GroupMembers(groups) \subseteq NodeNames(g)) THEN Refused(g, "DanglingReferenceError")
    ELSE Built([g EXCEPT !.selections = DictSet(@, param, groups)])

BuilderSetNodePosition(g, name, x, y) ==
    Built([g EXCEPT !.node_position = DictSet(@, name, <<x, y>>)])

BuilderSetSceneScaleFactor(g, scale) ==
    Built([g EXCEPT !.has_scale = TRUE, !.scene_scale_factor = scale])

NipypeModule == <<"nipype", ".", "Interface">>

\* The builder call a decoded document makes, applied to the graph
ApplyCall(g, c) ==
    CASE c.op = "set_documentation" -> Built([g EXCEPT !.documentation = c.args[1]])
      [] c.op = "add_process" ->
            BuilderAddNode(g, [Node(c.args[1], "process", c.args[2]) EXCEPT
                                 !.nipype = (c.args[2] = NipypeModule),
                                 !.inputs_to_copy = c.kwargs.inputs_to_copy,
                                 !.inputs_to_clean = c.kwargs.inputs_to_clean])
      [] c.op = "add_iterative_process" ->
            BuilderAddNode(g, [Node(c.args[1], "iteration", c.args[2]) EXCEPT
                                 !.iterative_parameters = c.kwargs.iterative_plugs])
      [] c.op = "add_switch" -> BuilderAddNode(g, Node(c.args[1], "switch", None))
      [] c.op = "call_process_method" ->
            IF c.args[1] \notin NodeNames(g) THEN Refused(g, "DanglingReferenceError")
            ELSE Built([g EXCEPT !.nodes =
                    [i \in DOMAIN g.nodes |->
                        IF g.nodes[i].name = c.args[1]
                        THEN [g.nodes[i] EXCEPT !.usedefault = Append(@, c.args[3])]
                        ELSE g.nodes[i]]])
      [] c.op = "add_link" -> BuilderAddLink(g, c.args[1], FALSE)
      [] c.op = "add_weak_link" -> BuilderAddLink(g, c.args[1], TRUE)
      [] c.op = "export_parameter" ->
            BuilderExportParameter(g, c.args[1], c.args[2], c.args[3])
      [] c.op = "add_processes_selection" ->
            BuilderAddProcessesSelection(g, c.args[1], c.args[2])
      [] c.op = "set_node_position" ->
            BuilderSetNodePosition(g, c.args[1], c.args[2], c.args[3])
      [] c.op = "set_scene_scale_factor" -> BuilderSetSceneScaleFactor(g, c.args[1])

\* builder.pipeline after the calls, or the first refusal
RECURSIVE BuildFrom(_, _, _)
BuildFrom(g, calls, i) ==
    IF i > Len(calls) THEN Built(g)
    ELSE LET r == ApplyCall(g, calls[i])
         IN  IF r.ok THEN BuildFrom(r.g, calls, i + 1) ELSE r

Build(calls) == BuildFrom(EmptyPipeline, calls, 1)

\* ------------------------------------------------------ save_xml_pipeline
RECURSIVE NamedChildren(_, _, _)
NamedChildren(tag, names, attr) ==
    IF names = <<>> THEN <<>>
    ELSE << [[Element(tag) EXCEPT !.name = Head(names)] EXCEPT ![attr] = <<"true">>] >>
         \o NamedChildren(tag, Tail(names), attr)

\* _write_process; the element <NameError> stands for the NameError that
\* "proces.inputs_to_clean" raises
WriteProcess(node) ==
    LET procnode == [Element("process") EXCEPT !.module = node.module, !.name = node.name]
    IN  IF node.nipype /\ node.inputs_to_copy # <<>> THEN Element("<NameError>")
        ELSE IF node.nipype
        THEN [procnode EXCEPT !.children = NamedChildren("nipype", node.usedefault, "use_default")]
        ELSE procnode

\* _write_iteration
WriteIteration(node) ==
    LET procnode == WriteProcess(node)
        iterate == [i \in DOMAIN node.iterative_parameters |->
                      [Element("iterate") EXCEPT !.name = node.iterative_parameters[i]]]
    IN  IF procnode.tag = "<NameError>" THEN procnode
        ELSE [procnode EXCEPT !.children = @ \o iterate]

\* _write_processes: one element per node of pipeline.nodes but ""
WriteNode(node) ==
    CASE node.kind = "switch" -> Element("switch")
      [] node.kind = "iteration" -> WriteIteration(node)
      [] OTHER -> WriteProcess(node)

WriteProcesses(g) == [i \in DOMAIN g.nodes |-> WriteNode(g.nodes[i])]

\* The link elements of one plug's links_to
RECURSIVE PlugLinks(_, _, _, _)
PlugLinks(links, i, node_name, plug_name) ==
    IF i > Len(links) THEN <<>>
    ELSE LET link == links[i]
             src == IF node_name = RootName THEN plug_name ELSE Dotted(node_name, plug_name)
             dst == IF link.dn = RootName THEN link.dp ELSE Dotted(link.dn, link.dp)
             linkelem == [Element("link") EXCEPT !.source = src, !.dest = dst,
                              !.weak = IF link.weak THEN IntOne ELSE None]
         IN  (IF link.sn = node_name /\ link.sp = plug_name THEN <<linkelem>> ELSE <<>>)
             \o PlugLinks(links, i + 1, node_name, plug_name)

RECURSIVE RootPlugLinks(_, _)
RootPlugLinks(g, i) ==
    IF i > Len(g.root_plugs) THEN <<>>
    ELSE (IF ~g.root_plugs[i][2] THEN PlugLinks(g.links, 1, RootName, g.root_plugs[i][1])
          ELSE <<>>)
         \o RootPlugLinks(g, i + 1)

RECURSIVE NodePlugLinks(_, _, _)
NodePlugLinks(g, node_name, p) ==
    IF p > Len(NodePlugOrder) THEN <<>>
    ELSE (IF NodePlugOrder[p] \in OutputPlugs
          THEN PlugLinks(g.links, 1, node_name, NodePlugOrder[p]) ELSE <<>>)
         \o NodePlugLinks(g, node_name, p + 1)

RECURSIVE InnerLinks(_, _)
InnerLinks(g, i) ==
    IF i > Len(g.nodes) THEN <<>>
    ELSE NodePlugLinks(g, g.nodes[i].name, 1) \o InnerLinks(g, i + 1)

\* _write_links
WriteLinks(g) == RootPlugLinks(g, 1) \o InnerLinks(g, 1)

\* _write_nodes_positions and the zoom level
WriteGui(g) ==
    LET positions == [i \in DOMAIN g.node_position |->
                        [Element("position") EXCEPT
                            !.name = g.node_position[i][1],
                            !.x = Unicode(g.node_position[i][2][1]),
                            !.y = Unicode(g.node_position[i][2][2])]]
        zoom == IF g.has_scale
                THEN << [Element("zoom") EXCEPT !.level = Unicode(g.scene_scale_factor)] >>
                ELSE <<>>
    IN  IF positions = <<>> /\ zoom = <<>> THEN <<>>
        ELSE << [Element("gui") EXCEPT !.children = positions \o zoom] >>

\* tree.write serializes string attributes only
Serializable(children) == \A i \in DOMAIN children : children[i].weak # IntOne

\* save_xml_pipeline(pipeline, xml_file): the document written, or the error
SaveXmlPipelineOf(g) ==
    LET processes == WriteProcesses(g)
        children == processes \o WriteLinks(g) \o WriteGui(g)
        root == [Root(None) EXCEPT !.name = <<"CustomPipeline">>,
                                   !.doc = g.documentation, !.children = children]
    IN  IF \E i \in DOMAIN processes : processes[i].tag = "<NameError>"
        THEN [status |-> "error", error |-> "NameError", doc |-> Root(None)]
        ELSE IF ~Serializable(children)
        THEN [status |-> "error", error |-> "TypeError", doc |-> Root(None)]
        ELSE [status |-> "ok", error |-> "", doc |-> root]

\* ------------------------------------------------- the inspected pipeline
\* Four nodes: the leaves A, B and C and the switch S.  A plug is
\* <<node, name>>, a node <<node>>.
LeafNodes == {"A", "B", "C"}

SwitchNodes == {"S"}

AllNodes == LeafNodes \cup SwitchNodes

Plug(node, name, output, optional) ==
    [node |-> node, name |-> name, output |-> output, optional |-> optional]

\* For an output, optional says the plug is optional-only
Plugs ==
    { Plug("A", "out", TRUE, FALSE),
      Plug("B", "in", FALSE, FALSE), Plug("B", "out", TRUE, FALSE),
      Plug("B", "aux", TRUE, TRUE),
      Plug("C", "in", FALSE, FALSE), Plug("C", "opt", FALSE, TRUE),
      Plug("C", "out", TRUE, FALSE),
      Plug("S", "alt1", FALSE, FALSE), Plug("S", "alt2", FALSE, FALSE),
      Plug("S", "out", TRUE, FALSE) }

Alternatives == {"alt1", "alt2"}

NoSelection == "<None>"

NodeId(node) == <<node>>

PlugId(p) == <<p.node, p.name>>

Ids == {NodeId(n) : n \in AllNodes} \cup {PlugId(p) : p \in Plugs}

PlugOf(id) == CHOOSE p \in Plugs : PlugId(p) = id

Link(src, dst, weak) == [src |-> src, dst |-> dst, weak |-> weak]

Graph(kind, lk, sel) == [kind |-> kind, links |-> lk, selection |-> sel]

\* Rule 3, with the testable property that a live link joins activated
\* plugs: a weak link is live when both its ends are activated by non-weak
\* reasoning (base), any other link when both its ends are activated.
\* Mutant: a link that is not weak is live whatever its ends are.
LinkLiveUnlessWeak(act, base, l) ==
    IF l.weak THEN base[l.src] /\ base[l.dst] ELSE TRUE

LinkLive(act, base, l) ==
    IF l.weak THEN base[l.src] /\ base[l.dst] ELSE act[l.src] /\ act[l.dst]

\* Rule 1: an output plug
OutputRule(g, act, base, p) ==
    /\ act[NodeId(p.node)]
    /\ (p.optional => \E l \in g.links : l.src = PlugId(p) /\ LinkLive(act, base, l))

\* Mutant of InputRule: the inputs of every alternative of a switch are live
InputRuleAnyAlternative(g, act, base, p) ==
    /\ act[NodeId(p.node)]
    /\ \/ p.optional
       \/ \E l \in g.links : l.dst = PlugId(p) /\ LinkLive(act, base, l) /\ act[l.src]

\* Rule 2: an input plug; of the inputs of a switch only those of the
\* selected alternative are live
InputRule(g, act, base, p) ==
    /\ act[NodeId(p.node)]
    /\ (p.node \in SwitchNodes => p.name = g.selection)
    /\ \/ p.optional
       \/ \E l \in g.links : l.dst = PlugId(p) /\ LinkLive(act, base, l) /\ act[l.src]

\* Rule 4: a leaf node
LeafRule(g, act, node) ==
    \A p \in Plugs : (p.node = node /\ ~p.output /\ ~p.optional) => act[PlugId(p)]

\* Rule 6: a switch
SwitchRule(g, act, node) ==
    /\ g.selection # NoSelection
    /\ \A p \in Plugs : (p.node = node /\ p.output) => act[PlugId(p)]

\* One pass: every value recomputed from the rules
Pass(g, act, base) ==
    [id \in Ids |->
        IF Len(id) = 1
        THEN IF id[1] \in SwitchNodes THEN SwitchRule(g, act, id[1])
             ELSE LeafRule(g, act, id[1])
        ELSE IF PlugOf(id).output THEN OutputRule(g, act, base, PlugOf(id))
             ELSE InputRule(g, act, base, PlugOf(id))]

\* Passes until no value changes
RECURSIVE FixedPoint(_, _, _)
FixedPoint(g, act, base) ==
    LET next == Pass(g, act, base)
    IN IF next = act THEN act ELSE FixedPoint(g, next, base)

AllActivated == [id \in Ids |-> TRUE]

NonWeak(g) == [g EXCEPT !.links = {l \in g.links : ~l.weak}]

\* Activation by non-weak reasoning: weak links never cause activation
BaseActivation(g) == FixedPoint(NonWeak(g), AllActivated, AllActivated)

\* Mutant of RecomputeActivationOf: one pass over the stored flags
RecomputeOnePass(g, act) ==
    LET base == BaseActivation(g)
    IN Pass(g, act, base)

\* The activation recompute: a function of the structure and the selection
RecomputeActivationOf(g, act) ==
    LET base == BaseActivation(g)
    IN FixedPoint(g, AllActivated, base)

LiveLinksOf(g, act) ==
    LET base == BaseActivation(g)
    IN {l \in g.links : LinkLive(act, base, l)}

\* The replayable log the engine writes for its recompute: one activation
\* event for every node and plug it activated, nodes before their plugs
IdOrder ==
    << <<"A">>, <<"A", "out">>,
       <<"B">>, <<"B", "in">>, <<"B", "out">>, <<"B", "aux">>,
       <<"C">>, <<"C", "in">>, <<"C", "opt">>, <<"C", "out">>,
       <<"S">>, <<"S", "alt1">>, <<"S", "alt2">>, <<"S", "out">> >>

RECURSIVE EventLog(_, _)
EventLog(act, i) ==
    IF i > Len(IdOrder) THEN <<>>
    ELSE (IF act[IdOrder[i]] THEN << <<"1", "+">> \o <<IdOrder[i][1], ":">> \o Tail(IdOrder[i]) >>
          ELSE <<>>)
         \o EventLog(act, i + 1)

\* ------------------------------------------------ the activation inspector
\* pipeline.id
PipelineId == "pipeline"

\* A string is the sequence of its words; the empty string has none
Words(s) == IF s = "" THEN <<>> ELSE <<s>>

Digits == {"1", "2"}

\* [+-=] is the range from '+' to '=', it holds ',' '.' '/' ':' ';' '<' and
\* the digits as well
ActivationChars == {"+", "-", "="}

NoMatch == [matched |-> FALSE, iteration |-> "", activation |-> "", node |-> "", plug |-> ""]

\* parser.match(line).groups() for (\d+)([+-=])([^:]*)(:([a-zA-Z_0-9]+))?
ParserMatch(line) ==
    IF Len(line) < 2 \/ line[1] \notin Digits \/ line[2] \notin ActivationChars THEN NoMatch
    ELSE LET rest == SubSeq(line, 3, Len(line))
             node == IF rest # <<>> /\ rest[1] # ":" THEN rest[1] ELSE ""
             after == IF node = "" THEN rest ELSE Tail(rest)
         IN [matched |-> TRUE, iteration |-> line[1], activation |-> line[2],
             node |-> node,
             plug |-> IF Len(after) >= 2 /\ after[1] = ":" THEN after[2] ELSE ""]

\* "{0}:{1}".format(node, plug)
RecordKey(node, plug) == Words(node) \o <<":">> \o Words(plug)

\* "{0} {1}:{2}".format(activation, node, plug)
EventText(activation, node, plug) ==
    Words(activation) \o <<" ">> \o Words(node) \o <<":">> \o Words(plug)

\* The loop over the lines of the record; a snapshot is the set of the
\* keys of current_activations, whose values are all True
RECURSIVE ParseRecord(_, _, _, _, _)
ParseRecord(lines, i, current, acts, evs) ==
    IF i > Len(lines) THEN [status |-> "ok", activations |-> acts, events |-> evs]
    ELSE LET m == ParserMatch(lines[i])
             key == RecordKey(m.node, m.plug)
             next == IF m.activation = "+" THEN current \cup {key} ELSE current \ {key}
         IN IF ~m.matched
            THEN [status |-> "AttributeError", activations |-> acts, events |-> evs]
            ELSE IF m.activation # "+" /\ key \notin current
            THEN [status |-> "KeyError", activations |-> acts, events |-> evs]
            ELSE ParseRecord(lines, i + 1, next, Append(acts, next),
                             Append(evs, EventText(m.activation, m.node, m.plug)))

\* The last operation, whether it called update_pipeline_activation, the
\* index of its last call, and what it returned (0 when it returns nothing)
Op(op, called, index) == [op |-> op, called |-> called, index |-> index, found |-> 0]

\* What the inspector's slots write: the flags of the pipeline, the current
\* row, and whether and with what index update_pipeline_activation ran
View(act, row, called, index) ==
    [activated |-> act, currentRow |-> row, called |-> called, index |-> index]

\* self.activations[index]: a negative index counts from the end
ListIndex(list, index) == IF index < 0 THEN Len(list) + index + 1 ELSE index + 1

\* "{0}:{1}".format(node_name, plug_name)
PlugKey(node_name, plug_name) == Words(node_name) \o <<":">> \o Words(plug_name)

\* Mutant of NodeKey: the colon is forgotten
NodeKeyNoColon(node_name) == Words(node_name)

\* "{0}:".format(node_name)
NodeKey(node_name) == Words(node_name) \o <<":">>

\* update_pipeline_activation(index); IndexError leaves everything as it is
UpdatePipelineActivationOf(acts, v, index) ==
    IF ListIndex(acts, index) \notin DOMAIN acts THEN v
    ELSE LET snapshot == acts[ListIndex(acts, index)]
         IN [v EXCEPT !.called = TRUE, !.index = index,
                      !.activated = [id \in Ids |->
                          IF Len(id) = 1 THEN NodeKey(id[1]) \in snapshot
                          ELSE PlugKey(id[1], id[2]) \in snapshot]]

\* Mutant of SetCurrentRow: the slot runs even when the row does not change
SetCurrentRowAlways(acts, v, row) ==
    UpdatePipelineActivationOf(acts, [v EXCEPT !.currentRow = row], row)

\* ui.events.setCurrentRow(row): currentRowChanged is emitted, and the slot
\* run, when the row changes
SetCurrentRow(acts, v, row) ==
    IF row = v.currentRow THEN v
    ELSE UpdatePipelineActivationOf(acts, [v EXCEPT !.currentRow = row], row)

\* refresh_activation_from_record with the signals connected: clearing the
\* list resets the current row while self.activations is still the old list
RefreshActivationFromRecordOf(rec, acts, evs, v) ==
    IF rec.id # PipelineId
    THEN [status |-> "ValueError", activations |-> acts, events |-> evs, view |-> v]
    ELSE LET cleared == SetCurrentRow(acts, v, -1)
             parsed == ParseRecord(rec.lines, 1, {}, <<>>, <<>>)
         IN [status |-> parsed.status, activations |-> parsed.activations,
             events |-> parsed.events,
             view |-> IF parsed.status # "ok" THEN cleared
                      ELSE SetCurrentRow(parsed.activations, cleared, Len(parsed.events) - 1)]

\* pattern.search(text), for a pattern that is a word or empty
Search(pat, text) == pat = "" \/ \E k \in DOMAIN text : text[k] = pat

RECURSIVE FindNextFrom(_, _, _, _, _)
FindNextFrom(acts, evs, pat, v, next_activation_row) ==
    IF ~(next_activation_row < Len(evs)) THEN [found |-> 0, view |-> v]
    ELSE IF Search(pat, evs[next_activation_row + 1])
    THEN [found |-> 1, view |-> SetCurrentRow(acts, v, next_activation_row)]
    ELSE FindNextFrom(acts, evs, pat, v, next_activation_row + 1)

\* Mutant of FindNextOf: the search starts at the current row
FindNextFromCurrentRow(acts, evs, pat, v) == FindNextFrom(acts, evs, pat, v, v.currentRow)

\* find_next
FindNextOf(acts, evs, pat, v) == FindNextFrom(acts, evs, pat, v, v.currentRow + 1)

RECURSIVE FindPreviousFrom(_, _, _, _, _)
FindPreviousFrom(acts, evs, pat, v, previous_activation_row) ==
    IF ~(previous_activation_row > 0) THEN [found |-> 0, view |-> v]
    ELSE IF Search(pat, evs[previous_activation_row + 1])
    THEN [found |-> 1, view |-> SetCurrentRow(acts, v, previous_activation_row)]
    ELSE FindPreviousFrom(acts, evs, pat, v, previous_activation_row - 1)

\* find_previous
FindPreviousOf(acts, evs, pat, v) == FindPreviousFrom(acts, evs, pat, v, v.currentRow - 1)

\* set_filter_pattern, after the text is set
SetFilterPatternOf(acts, evs, pat, v) ==
    IF FindNextOf(acts, evs, pat, v).found = 1 THEN FindNextOf(acts, evs, pat, v).view
    ELSE FindPreviousOf(acts, evs, pat, v).view

\* ------------------------------------------------------------------ inputs
N == <<"n">>
M == <<"m">>
K == <<"k">>
S == <<"s">>
X == <<"x">>
Y == <<"y">>
I == <<"i">>
J == <<"j">>
O == <<"o">>
Module == <<"mod", ".", "Proc">>

Groups == << <<<<"g1">>, <<N>>>>, <<<<"g2">>, <<M>>>> >>

\* The builder calls a program makes to construct a pipeline
BuilderInputs ==
    { Call("add_process", <<N, Module>>, NoKwargs),
      Call("add_process", <<M, Module>>, NoKwargs),
      Call("add_process", <<K, NipypeModule>>, [NoKwargs EXCEPT !.inputs_to_copy = <<I>>]),
      Call("add_iterative_process", <<M, Module>>, [NoKwargs EXCEPT !.iterative_plugs = <<I>>]),
      Call("add_switch", <<S>>, NoKwargs),
      Call("add_link", <<LinkString(Dotted(N, O), Dotted(M, I))>>, NoKwargs),
      Call("add_link", <<LinkString(Dotted(N, O), Dotted(S, I))>>, NoKwargs),
      Call("add_weak_link", <<LinkString(Dotted(N, O), Dotted(M, J))>>, NoKwargs),
      Call("add_link", <<LinkString(X, Dotted(M, I))>>, NoKwargs),
      Call("export_parameter", <<N, I, X>>, NoKwargs),
      Call("export_parameter", <<M, O, Y>>, NoKwargs),
      Call("add_processes_selection", <<<<"select">>, Groups>>, NoKwargs),
      Call("set_node_position", <<N, 10, 25>>, NoKwargs),
      Call("set_scene_scale_factor", <<30>>, NoKwargs) }

Named(tag, name) == [Element(tag) EXCEPT !.name = name]

LinkElement(source, dest) == [Element("link") EXCEPT !.source = source, !.dest = dest]

Group(name, children) == [Named("processes_group", <<name>>) EXCEPT !.children = children]

\* The entries a hand-written document is made of
Entries ==
    { [Element("doc") EXCEPT !.text = <<Space, "about", Space>>],
      [[Named("process", N) EXCEPT !.module = Module] EXCEPT !.children =
          << [Named("set", I) EXCEPT !.value = <<"1">>],
             [Named("nipype", J) EXCEPT !.usedefault = <<"true">>] >>],
      [[Named("process", M) EXCEPT !.module = Module] EXCEPT !.children =
          << Named("iterate", I) >>],
      [[Named("process", K) EXCEPT !.module = Module] EXCEPT !.children =
          << Named("iterate", I), Named("option", J) >>],
      LinkElement(Dotted(N, O), Dotted(M, I)),
      LinkElement(X, Dotted(N, I)),
      LinkElement(Dotted(M, O), X),
      LinkElement(X, Y),
      [Named("processes_selection", <<"select">>) EXCEPT !.children =
          << Group("g1", <<Named("process", N)>>), Group("g2", <<Named("process", M)>>) >>],
      [Named("processes_selection", <<"select">>) EXCEPT !.children =
          << Group("g1", <<Named("process", N)>>), Named("process", M) >>],
      [Named("processes_selection", <<"select">>) EXCEPT !.children =
          << Group("g1", <<Named("process", N), Named("switch", S)>>) >>],
      [Element("gui") EXCEPT !.children =
          << [Named("position", N) EXCEPT !.x = <<"1.0">>, !.y = <<"2.5">>],
             [Element("zoom") EXCEPT !.level = <<"3">>] >>],
      [Element("gui") EXCEPT !.children =
          << [Element("zoom") EXCEPT !.level = <<"3">>], Element("grid") >>],
      Element("switch") }

Versions == {None, <<>>, <<"2.0">>, <<"1.0">>}

\* The events someone may append to the record file
RecordLines ==
    { <<"1", "+", "A", ":">>, <<"1", "+", "A", ":", "out">>,
      <<"2", "-", "A", ":", "out">>, <<"2", "+", "B", ":", "in">> }

\* The texts of ui.pattern
Patterns == {"", "out"}

\* The links a program may add to the inspected pipeline, each weak or not
LinkEnds ==
    { <<<<"A", "out">>, <<"B", "in">>>>, <<<<"A", "out">>, <<"S", "alt1">>>>,
      <<<<"B", "out">>, <<"S", "alt2">>>>, <<<<"S", "out">>, <<"C", "in">>>>,
      <<<<"B", "aux">>, <<"C", "opt">>>>, <<<<"C", "out">>, <<"B", "in">>>> }

LinkInputs == {Link(e[1], e[2], w) : e \in LinkEnds, w \in BOOLEAN}

\* The links of the pipeline the inspector is opened on
InspectedLinks == {Link(<<"A", "out">>, <<"B", "in">>, FALSE)}

\* ----------------------------------------------------------- specification
\* No document, no builder call yet
InitCodec ==
    /\ pipeline = EmptyPipeline
    /\ builderCalls = 0
    /\ doc = Root(None)
    /\ origin = "none"
    /\ outcome = NotRun

\* The inspected pipeline as constructed: no link yet, the first alternative
\* selected, the activation computed
InitGraph(kind, lk) ==
    /\ switchKind = kind
    /\ graphLinks = lk
    /\ selection = "alt1"
    /\ activated = RecomputeActivationOf(Graph(kind, lk, "alt1"), AllActivated)
    /\ liveLinks = LiveLinksOf(Graph(kind, lk, "alt1"), activated)

\* No inspector yet
InitNoInspector ==
    /\ record = [debug |-> FALSE, id |-> PipelineId, lines |-> <<>>]
    /\ activations = <<>>
    /\ events = <<>>
    /\ currentRow = -1
    /\ pattern = ""

Init ==
    /\ InitCodec
    /\ InitGraph("Switch", {})
    /\ lastOp = Op("init", FALSE, 0)
    /\ InitNoInspector

\* A program constructs the pipeline through the builder API
BuilderCall(c) ==
    /\ origin = "none"
    /\ builderCalls < MaxBuilderCalls
    /\ ApplyCall(pipeline, c).ok
    /\ pipeline' = ApplyCall(pipeline, c).g
    /\ builderCalls' = builderCalls + 1
    /\ UNCHANGED <<doc, origin, outcome>>
    /\ UNCHANGED <<graphVars, activated, liveLinks, lastOp, inspectorVars>>

\* save_xml_pipeline(pipeline, xml_file)
SaveXmlPipeline ==
    /\ origin = "none"
    /\ builderCalls > 0
    /\ doc' = SaveXmlPipelineOf(pipeline).doc
    /\ origin' = IF SaveXmlPipelineOf(pipeline).status = "ok" THEN "saved" ELSE "save_failed"
    /\ UNCHANGED <<pipeline, builderCalls, outcome>>
    /\ UNCHANGED <<graphVars, activated, liveLinks, lastOp, inspectorVars>>

\* Someone starts writing a document by hand, with or without a version
StartDocument(version) ==
    /\ origin = "none"
    /\ builderCalls = 0
    /\ doc' = Root(version)
    /\ origin' = "authored"
    /\ UNCHANGED <<pipeline, builderCalls, outcome>>
    /\ UNCHANGED <<graphVars, activated, liveLinks, lastOp, inspectorVars>>

\* ... and appends an entry to it
WriteEntry(e) ==
    /\ origin = "authored"
    /\ outcome.status = "none"
    /\ Len(doc.children) < MaxEntries
    /\ doc' = [doc EXCEPT !.children = Append(@, e)]
    /\ UNCHANGED <<pipeline, builderCalls, origin, outcome>>
    /\ UNCHANGED <<graphVars, activated, liveLinks, lastOp, inspectorVars>>

\* create_xml_pipeline(module, name, xml_file)
CreateXmlPipeline ==
    /\ origin \in {"authored", "saved"}
    /\ outcome.status = "none"
    /\ outcome' = CreateXmlPipelineOf(doc)
    /\ UNCHANGED <<pipeline, builderCalls, doc, origin>>
    /\ UNCHANGED <<graphVars, activated, liveLinks, lastOp, inspectorVars>>

Next ==
    \/ \E c \in BuilderInputs : BuilderCall(c)
    \/ SaveXmlPipeline
    \/ \E v \in Versions : StartDocument(v)
    \/ \E e \in Entries : WriteEntry(e)
    \/ CreateXmlPipeline

Spec == Init /\ [][Next]_vars

\* ------------------------------------------- specification of the engine
InitEngine ==
    /\ InitCodec
    /\ \E kind \in {"Switch", "OptionalSwitch"} : InitGraph(kind, {})
    /\ lastOp = Op("init", FALSE, 0)
    /\ InitNoInspector

\* The activation is recomputed after every mutation, and logged to the
\* record file when pipeline._debug_activations is set
Mutated(lk, sel, op) ==
    /\ graphLinks' = lk
    /\ selection' = sel
    /\ activated' = RecomputeActivationOf(Graph(switchKind, lk, sel), activated)
    /\ liveLinks' = LiveLinksOf(Graph(switchKind, lk, sel), activated')
    /\ lastOp' = Op(op, FALSE, 0)
    /\ record' = IF record.debug THEN [record EXCEPT !.id = PipelineId, !.lines = EventLog(activated', 1)]
                  ELSE record
    /\ UNCHANGED <<codecVars, switchKind, activations, events, currentRow, pattern>>

\* add_link; a second non-weak link into an input is MultipleSourcesError
AddLink(l) ==
    /\ l \notin graphLinks
    /\ Cardinality(graphLinks) < MaxLinks
    /\ ~(~l.weak /\ \E k \in graphLinks : k.dst = l.dst /\ ~k.weak)
    /\ Mutated(graphLinks \cup {l}, selection, "add_link")

\* remove_link
RemoveLink(l) ==
    /\ l \in graphLinks
    /\ Mutated(graphLinks \ {l}, selection, "remove_link")

\* set_selection; only an OptionalSwitch accepts None, an alternative that
\* is not declared is UnknownAlternativeError
SetSelection(alt) ==
    /\ alt \in Alternatives \cup (IF switchKind = "OptionalSwitch" THEN {NoSelection} ELSE {})
    /\ Mutated(graphLinks, alt, "set_selection")

\* update_nodes_and_plugs_activation, asked for explicitly
RecomputeActivation ==
    /\ Mutated(graphLinks, selection, "recompute")

NextEngine ==
    \/ \E l \in LinkInputs : AddLink(l)
    \/ \E l \in LinkInputs : RemoveLink(l)
    \/ \E alt \in Alternatives \cup {NoSelection} : SetSelection(alt)
    \/ RecomputeActivation

SpecEngine == InitEngine /\ [][NextEngine]_vars

\* ---------------------------------------- specification of the inspector
\* ActivationInspector.__init__: the record file is set, the activation
\* recomputed and the record read, all before the signals are connected
InitInspector ==
    /\ InitCodec
    /\ InitGraph("Switch", InspectedLinks)
    /\ lastOp = Op("init", FALSE, 0)
    /\ record = [debug |-> TRUE, id |-> PipelineId, lines |-> EventLog(activated, 1)]
    /\ activations = ParseRecord(record.lines, 1, {}, <<>>, <<>>).activations
    /\ events = ParseRecord(record.lines, 1, {}, <<>>, <<>>).events
    /\ currentRow = Len(events) - 1
    /\ pattern = ""

CurrentView == View(activated, currentRow, FALSE, 0)

\* What a slot leaves behind
Returned(v, op, found) ==
    /\ activated' = v.activated
    /\ currentRow' = v.currentRow
    /\ lastOp' = [Op(op, v.called, v.index) EXCEPT !.found = found]
    /\ UNCHANGED <<codecVars, graphVars, liveLinks, record>>

\* ... when it returns nothing
Shown(v, op) == Returned(v, op, 0)

\* The user clicks a row of ui.events
SelectRow(row) ==
    /\ row \in 0 .. Len(events) - 1
    /\ Shown(SetCurrentRow(activations, CurrentView, row), "select")
    /\ UNCHANGED <<activations, events, pattern>>

\* btnUpdate clicked: refresh_activation_from_record
RefreshActivationFromRecord ==
    LET done == RefreshActivationFromRecordOf(record, activations, events, CurrentView)
    IN /\ activations' = done.activations
       /\ events' = done.events
       /\ Shown(done.view, IF done.status = "ok" THEN "refresh" ELSE done.status)
       /\ UNCHANGED pattern

\* next clicked: find_next
FindNext ==
    /\ Returned(FindNextOf(activations, events, pattern, CurrentView).view, "find_next",
                FindNextOf(activations, events, pattern, CurrentView).found)
    /\ UNCHANGED <<activations, events, pattern>>

\* previous clicked: find_previous
FindPrevious ==
    /\ Returned(FindPreviousOf(activations, events, pattern, CurrentView).view, "find_previous",
                FindPreviousOf(activations, events, pattern, CurrentView).found)
    /\ UNCHANGED <<activations, events, pattern>>

\* A plug is clicked in the pipeline view: set_filter_pattern
SetFilterPattern(filter_pattern) ==
    /\ pattern' = filter_pattern
    /\ Shown(SetFilterPatternOf(activations, events, filter_pattern, CurrentView), "set_filter_pattern")
    /\ UNCHANGED <<activations, events>>

\* The user types in ui.pattern
EditPattern(text) ==
    /\ pattern' = text
    /\ UNCHANGED <<codecVars, graphVars, activated, liveLinks, lastOp, record, activations, events, currentRow>>

\* The record file is written anew, by this pipeline or by another one,
\* once it is an engine's log that the inspector shows, or another
\* pipeline's record
RewriteRecord(id) ==
    /\ \/ Len(record.lines) > MaxRecord /\ Len(events) = Len(record.lines)
       \/ record.id # PipelineId
    /\ record' = [record EXCEPT !.id = id, !.lines = <<>>]
    /\ UNCHANGED <<codecVars, graphVars, activated, liveLinks, lastOp, activations, events, currentRow, pattern>>

\* ... and an event is appended to it
AppendRecordLine(line) ==
    /\ record.id = PipelineId
    /\ Len(record.lines) < MaxRecord
    /\ record' = [record EXCEPT !.lines = Append(@, line)]
    /\ UNCHANGED <<codecVars, graphVars, activated, liveLinks, lastOp, activations, events, currentRow, pattern>>

NextInspector ==
    \/ \E row \in 0 .. Len(IdOrder) : SelectRow(row)
    \/ RefreshActivationFromRecord
    \/ FindNext
    \/ FindPrevious
    \/ \E p \in Patterns : SetFilterPattern(p)
    \/ \E p \in Patterns : EditPattern(p)
    \/ \E id \in {PipelineId, "other"} : RewriteRecord(id)
    \/ \E line \in RecordLines : AppendRecordLine(line)
    \/ RecomputeActivation

SpecInspector == InitInspector /\ [][NextInspector]_vars

\* ------------------------------------------------------------------ claims
LinkPairs(g) == {<<g.links[i].sn, g.links[i].sp, g.links[i].dn, g.links[i].dp>> : i \in DOMAIN g.links}

SameGraph(a, b) ==
    /\ NodeNames(a) = NodeNames(b)
    /\ LinkPairs(a) = LinkPairs(b)
    /\ a.selections = b.selections
    /\ a.exports = b.exports

Decoded == outcome.status \in {"ok", "error"}

\* C1: decoding the document that save_xml_pipeline emits for a pipeline built
\* through the builder succeeds and yields the same node names, link endpoint
\* pairs, selection groups and exported-plug mapping.
C1_RoundTrip ==
    (origin = "saved" /\ Decoded) =>
        /\ outcome.status = "ok"
        /\ Build(outcome.calls).ok
        /\ SameGraph(Build(outcome.calls).g, pipeline)

\* The tags each structural level of a document accepts
TagsOf(level) ==
    CASE level = "pipeline" -> {"doc", "process", "link", "processes_selection", "gui"}
      [] level = "process" -> {"set", "iterate", "nipype"}
      [] level = "processes_selection" -> {"processes_group"}
      [] level = "processes_group" -> {"process"}
      [] level = "gui" -> {"position", "zoom"}
      [] OTHER -> {}

Structural == {"process", "processes_selection", "processes_group", "gui"}

\* An unrecognized tag among the children of an element of the given level,
\* or below it
RECURSIVE HasUnknownTag(_, _)
HasUnknownTag(level, children) ==
    \E i \in DOMAIN children :
        \/ children[i].tag \notin TagsOf(level)
        \/ /\ children[i].tag \in Structural
           /\ (level = "processes_group" => children[i].tag # "process")
           /\ HasUnknownTag(children[i].tag, children[i].children)

C3_VersionRequired ==
    (Decoded /\ doc.capsul_xml # <<"2.0">>) =>
        (outcome.status = "error" /\ outcome.calls = <<>>)

\* C3 amended: a version that is present, not empty and not 2.0 fails the
\* parse before any builder call; a document whose version is absent, empty
\* or 2.0 is parsed: its outcome is that of its entries.
C3_VersionChecked ==
    Decoded =>
        IF doc.capsul_xml \notin {None, <<>>, <<"2.0">>}
        THEN outcome.status = "error" /\ outcome.error = "ValueError" /\ outcome.calls = <<>>
        ELSE /\ outcome = DecodeChildren(Running, doc.children, 1)
             /\ (doc.children = <<>> => outcome.status = "ok")

\* C3 witness: a document without a version tag is parsed, and builder calls
\* are made for it
C3_Witness ==
    /\ origin = "authored"
    /\ doc.capsul_xml = None
    /\ outcome.status = "ok"
    /\ Len(outcome.calls) >= 2

\* The link entries of the document and their endpoints
IsLink(k) == doc.children[k].tag = "link"

OneDotted(k) == HasDot(doc.children[k].source) # HasDot(doc.children[k].dest)

BareOf(k) ==
    IF HasDot(doc.children[k].source) THEN doc.children[k].dest ELSE doc.children[k].source

DottedOf(k) ==
    IF HasDot(doc.children[k].source) THEN doc.children[k].source ELSE doc.children[k].dest

\* The bare name of entry k was used by an earlier link entry with one dotted
\* endpoint
UsedBefore(k) == \E j \in 1..(k - 1) : IsLink(j) /\ OneDotted(j) /\ BareOf(j) = BareOf(k)

CallsFor(k) == {i \in DOMAIN outcome.calls : outcome.calls[i].entry = k}

\* Every entry up to k was processed without an error
Processed(k) == outcome.status = "ok" \/ (outcome.status = "error" /\ k < outcome.entry)

CurrentGraph == Graph(switchKind, graphLinks, selection)

\* C5 as stated: the activated flag of a node or a plug changes only in a
\* recompute of the activation engine.
C5_OnlyEngineWrites ==
    [][activated' # activated => lastOp'.op \in {"add_link", "remove_link", "set_selection", "recompute"}]_vars

\* C5 as amended: the activated flag of a node or a plug changes only in a
\* recompute of the activation engine, or in an inspector operation that
\* changes the current row of the event list (a refresh from the record
\* included), which runs update_pipeline_activation.
C5_EngineOrReplayWrites ==
    [][activated' # activated =>
          \/ lastOp'.op \in {"add_link", "remove_link", "set_selection", "recompute"}
          \/ lastOp'.op = "refresh"
          \/ currentRow' # currentRow]_vars

\* A recorded step was selected and the flags are no longer the engine's
C5_Witness ==
    /\ lastOp.op = "select"
    /\ lastOp.called
    /\ activated # RecomputeActivationOf(CurrentGraph, activated)

LiveAlternatives == {alt \in Alternatives : \E l \in liveLinks : l.dst = <<"S", alt>>}

Identifier(id) == IF Len(id) = 1 THEN <<id[1], ":">> ELSE <<id[1], ":", id[2]>>

\* C10: after update_pipeline_activation(i), i the index of a snapshot, the
\* activated flag of every node and plug is true exactly when its
\* identifier is in snapshot i.
C10_ReflectsSnapshot ==
    (lastOp.called /\ lastOp.index >= 0) =>
        \A id \in Ids : activated[id] <=> Identifier(id) \in activations[lastOp.index + 1]

\* A step was replayed whose snapshot holds a node, and lacks another
C10_Witness ==
    /\ lastOp.called
    /\ lastOp.index >= 0
    /\ lastOp.index < Len(activations) - 1
    /\ \E node \in AllNodes : activated[<<node>>]
    /\ \E id \in Ids : ~activated[id] /\ Identifier(id) \in activations[Len(activations)]

\* The rows of ui.events whose text the pattern matches
MatchingRows == {row \in 0 .. Len(events) - 1 : Search(pattern, events[row + 1])}

EarlierMatches == {row \in MatchingRows : row < currentRow}

LaterMatches == {row \in MatchingRows : row > currentRow}

Nearest(rows) == CHOOSE row \in rows : \A other \in rows : other <= row

Smallest(rows) == CHOOSE row \in rows : \A other \in rows : row <= other

\* C11: find_previous returns 1 and moves the current row to the nearest
\* matching row before it whenever a row before the current row matches the
\* pattern; otherwise it returns 0 and leaves the current row where it is.
C11_FindPrevious ==
    [][FindPrevious =>
          IF EarlierMatches # {}
          THEN lastOp'.found = 1 /\ currentRow' = Nearest(EarlierMatches)
          ELSE lastOp'.found = 0 /\ currentRow' = currentRow]_vars

\* C12: find_next returns 1 and moves the current row to the smallest
\* matching row after it when there is one; otherwise it returns 0 and
\* leaves the current row where it is.
C12_FindNext ==
    [][FindNext =>
          IF LaterMatches # {}
          THEN lastOp'.found = 1 /\ currentRow' = Smallest(LaterMatches)
          ELSE lastOp'.found = 0 /\ currentRow' = currentRow]_vars

\* find_next found a row and stepped over one that does not match
C12_Witness ==
    /\ lastOp.op = "find_next"
    /\ lastOp.found = 1
    /\ lastOp.called
    /\ lastOp.index = currentRow
    /\ currentRow \in MatchingRows
    /\ \E row \in 0 .. currentRow - 1 : row \notin MatchingRows

\* The builder calls an entry of each kind makes
CallsOfTag(tag) ==
    CASE tag = "doc" -> {"set_documentation"}
      [] tag = "process" -> {"add_process", "add_iterative_process", "call_process_method"}
      [] tag = "link" -> {"add_link", "export_parameter"}
      [] tag = "processes_selection" -> {"add_processes_selection"}
      [] tag = "gui" -> {"set_node_position", "set_scene_scale_factor"}
      [] OTHER -> {}

AddingCalls(k) ==
    {i \in CallsFor(k) : outcome.calls[i].op \in {"add_process", "add_iterative_process"}}

\* C13: the builder calls of create_xml_pipeline come in the order of the
\* entries they are made for, each call is one its entry's kind makes, a
\* process entry makes exactly one process-adding call, named as the entry,
\* and its set_usedefault calls come after that call (and, by the order,
\* before the calls of the next entry).
C13_DeclarationOrder ==
    Decoded =>
        /\ \A i, j \in DOMAIN outcome.calls :
              i < j => outcome.calls[i].entry <= outcome.calls[j].entry
        /\ \A i \in DOMAIN outcome.calls :
              /\ outcome.calls[i].entry \in DOMAIN doc.children
              /\ outcome.calls[i].op \in CallsOfTag(doc.children[outcome.calls[i].entry].tag)
        /\ \A k \in DOMAIN doc.children :
              (doc.children[k].tag = "process" /\ Processed(k)) =>
                  \E i \in CallsFor(k) :
                      /\ AddingCalls(k) = {i}
                      /\ outcome.calls[i].args[1] = doc.children[k].name
                      /\ \A j \in CallsFor(k) \ {i} :
                            /\ j > i
                            /\ outcome.calls[j].op = "call_process_method"
                            /\ outcome.calls[j].args[1] = doc.children[k].name

\* A document was decoded where a process entry with a set_usedefault call
\* is followed by another entry that makes a call
C13_Witness ==
    /\ outcome.status = "ok"
    /\ \E k, l \in DOMAIN doc.children :
          /\ k < l
          /\ doc.children[k].tag = "process"
          /\ Cardinality(CallsFor(k)) >= 2
          /\ CallsFor(l) # {}

\* The identifier a line of the record is about: "node:" or "node:plug"
EventId(line) == IF Len(line) = 3 THEN <<line[3], ":">> ELSE SubSeq(line, 3, Len(line))

\* A '+' or '-' event on an identifier
IsEvent(line) == Len(line) >= 3 /\ line[1] \in Digits /\ line[2] \in {"+", "-"} /\ line[3] # ":"

\* The identifiers whose most recent event among the first n lines is '+'
ActiveAfter(lines, n) ==
    {EventId(lines[j]) : j \in {j \in 1 .. n :
        /\ lines[j][2] = "+"
        /\ \A m \in (j + 1) .. n : EventId(lines[m]) # EventId(lines[j])}}

\* C14: on a record whose header is the pipeline's and whose lines are '+'
\* and '-' events, refresh_activation_from_record completes, shows one
\* event and builds one snapshot per line, snapshot k holding the
\* identifiers whose most recent event among the first k+1 is '+', and
\* leaves the last event selected.
C14_ReplayLog ==
    [][(RefreshActivationFromRecord /\ record.id = PipelineId
            /\ \A j \in DOMAIN record.lines : IsEvent(record.lines[j])) =>
          /\ lastOp'.op = "refresh"
          /\ Len(events') = Len(record.lines)
          /\ Len(activations') = Len(record.lines)
          /\ \A k \in DOMAIN activations' : activations'[k] = ActiveAfter(record.lines, k)
          /\ currentRow' = Len(record.lines) - 1]_vars

\* An endpoint as a link entry names it: bare on the pipeline itself
EndName(node, plug) == IF node = RootName THEN plug ELSE Dotted(node, plug)

WrittenAs(l) == <<EndName(l.sn, l.sp), EndName(l.dn, l.dp)>>

LinkEntries == {i \in DOMAIN doc.children : doc.children[i].tag = "link"}

EntryEnds(i) == <<doc.children[i].source, doc.children[i].dest>>

\* C15: save_xml_pipeline writes one link entry per link of the pipeline
\* and no other, an end on the pipeline itself named by the bare plug name
\* and any other end by node.plug.
C15_EachLinkOnce ==
    origin \in {"saved", "save_failed"} =>
        /\ \A j \in DOMAIN pipeline.links :
              Cardinality({i \in LinkEntries : EntryEnds(i) = WrittenAs(pipeline.links[j])})
                = Cardinality({k \in DOMAIN pipeline.links :
                                  WrittenAs(pipeline.links[k]) = WrittenAs(pipeline.links[j])})
        /\ \A i \in LinkEntries :
              \E j \in DOMAIN pipeline.links : EntryEnds(i) = WrittenAs(pipeline.links[j])

====
